---- MODULE Spec2Model ----
(***************************************************************************)
(* Homigo: address autocomplete (AddressAutocomplete), pin placement on    *)
(* the listing map (ListingMap), the geocoding client (GeocodingService),  *)
(* the listing controller (createListing / updateListing) and the address  *)
(* suggestions endpoint (getAddressSuggestions), with the flash middleware *)
(* of the application on the page a redirect leads to.                     *)
(*                                                                         *)
(* Coordinates are integers in units of 10^-6 degree (12.34 is 12340000).  *)
(* A text is a sequence of one-character strings where its length or its   *)
(* blanks matter (the autocomplete query), an opaque string elsewhere.     *)
(***************************************************************************)
EXTENDS Integers, Sequences, FiniteSets, TLC

\* ------------------------------------------------------------------ bounds
\* Largest number of suggestions one response of the endpoint carries here.
MaxSugg == 2

\* ------------------------------------------------------- program constants
\* AddressAutocomplete options.minLength
MinLength == 2
\* fetchSuggestions retries while attempt <= 2
MaxFetchAttempt == 2


\* ============================================================ AddressAutocomplete
VARIABLES
    inputValue,     \* this.input.value, a sequence of characters
    debounceTimer,  \* this.debounceTimer: NoTimer or the pending callback's query
    isLoading,      \* this.isLoading
    suggestions,    \* this.suggestions
    currentIndex,   \* this.currentIndex (0-based, -1 = none)
    listDisplay,    \* this.suggestionsList.style.display
    listContent,    \* what this.suggestionsList.innerHTML shows
    calls,          \* invocations of fetchSuggestions suspended at an await
    lastDone,       \* history: how the last finished invocation ended
    suggSource,     \* history: did `suggestions` come from a superseded request
    closedBySelect  \* history: a selection closed the list, no input or focus since

acVars == <<inputValue, debounceTimer, isLoading, suggestions, currentIndex,
            listDisplay, listContent, calls, lastDone, suggSource, closedBySelect>>

\* ============================================================ ListingMap
VARIABLES
    enableClickGeocoding, \* this.options.enableClickGeocoding
    apiKey,               \* is this.apiKey non-empty
    gestures,             \* the onMapClick invocations, by number
    nextGesture,          \* the number the next map click gets
    tempMarkers,          \* gestures whose temporary marker is on the map
    popup,                \* the popup open on the map (Leaflet keeps one)
    marker,               \* this.marker's position
    locationField,        \* input[name="listing[location]"].value
    latField,             \* input[name="listing[latitude]"].value
    lngField              \* input[name="listing[longitude]"].value
\* (latField and lngField hold <<>> while empty, <<number>> once written)

pinVars == <<enableClickGeocoding, apiKey, gestures, nextGesture, tempMarkers,
             popup, marker, locationField, latField, lngField>>

\* ============================================================ listing controller
VARIABLES
    db,     \* the stored listing of the request's id
    req,    \* the createListing / updateListing request being handled
    flash,  \* the req.flash messages the request recorded
    geo     \* a call of GeocodingService.geocodeAddress: its inputs and result

srvVars == <<db, req, flash>>

\* ============================================================ GeocodingService, endpoint
VARIABLES
    rev,    \* a call of GeocodingService.reverseGeocode: its inputs and result
    sug,    \* a call of GeocodingService.getAutocompleteSuggestions
    api     \* a request to getAddressSuggestions and its response

svcVars == <<rev, sug, api>>

\* ============================================================ selectSuggestion
VARIABLE
    sel     \* an AddressAutocomplete session with suggestions shown, the form
            \* fields selectSuggestion writes, and the selections made so far

vars == <<acVars, pinVars, srvVars, geo, svcVars, sel>>

\* What the user can leave in the location input (e.target.value).
RawInputs ==
    { <<>>, <<"a">>, <<"a", "b">>, <<"c", "d">>, <<" ", "a", " ">>, <<"a", "b", " ">> }

RECURSIVE TrimLeft(_)
TrimLeft(s) == IF s # <<>> /\ Head(s) = " " THEN TrimLeft(Tail(s)) ELSE s

RECURSIVE TrimRight(_)
TrimRight(s) ==
    IF s # <<>> /\ s[Len(s)] = " " THEN TrimRight(SubSeq(s, 1, Len(s) - 1)) ELSE s

\* String.prototype.trim
Trim(s) == TrimRight(TrimLeft(s))

NoTimer == [armed |-> FALSE, query |-> <<>>]

\* The i-th suggestion the endpoint returns for query q.
Suggestion(q, i) == [query |-> q, rank |-> i]

\* data.suggestions of a successful response with n entries, in provider order.
SuggList(q, n) == [i \in 1..n |-> Suggestion(q, i)]

\* What the browser's fetch of the endpoint can end in:
\*   ok      - HTTP 200, body {success: true, suggestions: [n entries]}
\*   appfail - HTTP 200, body {success: false, error}
\*   http    - response.ok false, with the status
\*   network - fetch rejects, or the body is not JSON (an Error other than AbortError)
\*   abort   - the 8 s timer aborted the request (AbortError)
FetchOutcomes ==
    [kind : {"ok"}, n : 0..MaxSugg, status : {200}]
    \cup [kind : {"appfail"}, n : {0}, status : {200}]
    \cup [kind : {"http"}, n : {0}, status : {400, 429, 500}]
    \cup [kind : {"network", "abort"}, n : {0}, status : {0}]

NoContent == [kind |-> "empty", msg |-> ""]
NoCycle == [query |-> <<>>, first |-> "none", final |-> "none", requests |-> 0,
            endLoading |-> FALSE, endContent |-> "none", endSuggestions |-> <<>>]

\* constructor
ACInit ==
    /\ inputValue = <<>>
    /\ debounceTimer = NoTimer
    /\ isLoading = FALSE
    /\ suggestions = <<>>
    /\ currentIndex = -1
    /\ listDisplay = "none"
    /\ listContent = NoContent
    /\ calls = {}
    /\ lastDone = NoCycle
    /\ suggSource = "none"
    /\ closedBySelect = FALSE

\* The label of an outcome in the history variables.
OutcomeTag(o) ==
    IF o.kind = "http" THEN IF o.status = 429 THEN "http429" ELSE "httpError"
    ELSE o.kind

\* hideSuggestions
HideSuggestions ==
    /\ listDisplay' = "none"
    /\ currentIndex' = -1

\* showLoading / showNoResults / showError: the row, then showSuggestions
ShowRow(kind, msg) ==
    /\ listContent' = [kind |-> kind, msg |-> msg]
    /\ listDisplay' = "block"

\* (mutant) onInput calling fetchSuggestions on every keystroke, with no timer
OnInputWithoutDebounce(v) ==
    /\ inputValue' = v
    /\ IF Len(Trim(v)) < MinLength
       THEN /\ HideSuggestions
            /\ UNCHANGED <<isLoading, listContent, calls>>
       ELSE /\ currentIndex' = currentIndex
            /\ IF isLoading
               THEN UNCHANGED <<isLoading, listContent, listDisplay, calls>>
               ELSE /\ isLoading' = TRUE
                    /\ ShowRow("loading", "")
                    /\ calls' = calls \cup {[query |-> Trim(v), attempt |-> 1,
                                              pc |-> "fetch", requests |-> 1,
                                              first |-> "none", superseded |-> FALSE]}
    /\ UNCHANGED <<debounceTimer, suggestions, lastDone, suggSource>>
    /\ UNCHANGED <<pinVars, srvVars, geo, svcVars, sel>>
    /\ closedBySelect' = FALSE

\* onInput: the user edits the field to raw text v
OnInput(v) ==
    /\ inputValue' = v
    /\ IF Len(Trim(v)) < MinLength
       THEN /\ HideSuggestions
            /\ UNCHANGED debounceTimer
       ELSE /\ debounceTimer' = [armed |-> TRUE, query |-> Trim(v)]
            /\ UNCHANGED <<listDisplay, currentIndex>>
    /\ UNCHANGED <<isLoading, suggestions, listContent, calls, lastDone, suggSource>>
    /\ UNCHANGED <<pinVars, srvVars, geo, svcVars, sel>>
    /\ closedBySelect' = FALSE

\* (mutant) fetchSuggestions without its entry guard
FetchNeverRefused == FALSE

\* The entry guard of fetchSuggestions: `if (this.isLoading) return;`
FetchRefused == isLoading

\* An invocation that sent its request and awaits fetch().
NewCall(q, attempt, requests, first) ==
    [query |-> q, attempt |-> attempt, pc |-> "fetch", requests |-> requests,
     first |-> first, superseded |-> FALSE]

\* History only: the invocations whose query is no longer the latest one fired.
Supersede(cs, q) ==
    { IF c.query # q THEN [c EXCEPT !.superseded = TRUE] ELSE c : c \in cs }

\* The debounce timer fires: fetchSuggestions(query) up to its first await.
DebounceFire ==
    /\ debounceTimer.armed
    /\ debounceTimer' = NoTimer
    /\ IF FetchRefused
       THEN /\ calls' = Supersede(calls, debounceTimer.query)
            /\ UNCHANGED <<isLoading, listContent, listDisplay>>
       ELSE /\ isLoading' = TRUE
            /\ ShowRow("loading", "")
            /\ calls' = Supersede(calls, debounceTimer.query)
                           \cup {NewCall(debounceTimer.query, 1, 1, "none")}
    /\ UNCHANGED <<inputValue, suggestions, currentIndex, lastDone, suggSource>>
    /\ UNCHANGED <<pinVars, srvVars, geo, svcVars, sel>>
    /\ UNCHANGED closedBySelect

\* History only: the summary of an invocation that reached `finally`.
Summary(c, o, content, sugg) ==
    [query |-> c.query,
     first |-> IF c.first = "none" THEN OutcomeTag(o) ELSE c.first,
     final |-> OutcomeTag(o),
     requests |-> c.requests,
     endLoading |-> FALSE,
     endContent |-> content,
     endSuggestions |-> sugg]

\* `finally { this.isLoading = false; }` of invocation c
Finally(c, o, content, sugg) ==
    /\ isLoading' = FALSE
    /\ calls' = calls \ {c}
    /\ lastDone' = Summary(c, o, content, sugg)

\* Does the invocation wait and call itself again after outcome o?
\*   !response.ok: status 429 and attempt <= 2 retries; any other status throws
\*   Error("HTTP <status>: ..."), and the catch retries an error that is not an
\*   AbortError while attempt <= 2 and its message does not contain "429".
Retries(c, o) ==
    \/ o.kind = "http" /\ o.status = 429 /\ c.attempt <= MaxFetchAttempt
    \/ o.kind = "http" /\ o.status # 429 /\ c.attempt <= MaxFetchAttempt
    \/ o.kind = "network" /\ c.attempt <= MaxFetchAttempt

\* The message showError gets for a failed outcome that is not retried.
ErrorMessage(o) ==
    CASE o.kind = "appfail" -> "server error text"
      [] o.kind = "abort" -> "Request timed out. Please try again."
      [] OTHER -> "Unable to load suggestions. Please check your connection."

\* The await of fetch() in invocation c ends in outcome o.
FetchResponse(c, o) ==
    /\ c \in calls
    /\ c.pc = "fetch"
    /\ UNCHANGED <<inputValue, debounceTimer>>
    /\ UNCHANGED <<pinVars, srvVars, geo, svcVars, sel>>
    /\ UNCHANGED closedBySelect
    /\ CASE o.kind = "ok" ->
              \* this.suggestions = data.suggestions; this.displaySuggestions()
              /\ suggestions' = SuggList(c.query, o.n)
              /\ suggSource' = IF c.superseded THEN "stale" ELSE "fresh"
              /\ IF o.n = 0
                 THEN /\ ShowRow("noresults", "")
                      /\ UNCHANGED currentIndex
                      /\ Finally(c, o, "noresults", <<>>)
                 ELSE /\ ShowRow("items", "")
                      /\ currentIndex' = -1
                      /\ Finally(c, o, "items", SuggList(c.query, o.n))
         [] Retries(c, o) ->
              \* await new Promise(resolve => setTimeout(resolve, 1000 * attempt))
              /\ calls' = (calls \ {c})
                     \cup {[c EXCEPT !.pc = "backoff",
                                     !.first = IF c.first = "none"
                                               THEN OutcomeTag(o) ELSE c.first]}
              /\ UNCHANGED <<isLoading, suggestions, currentIndex, listDisplay,
                             listContent, lastDone, suggSource>>
         [] OTHER ->
              /\ ShowRow("error", ErrorMessage(o))
              /\ Finally(c, o, "error", suggestions)
              /\ UNCHANGED <<suggestions, currentIndex, suggSource>>

\* The backoff timer of invocation c fires: `return this.fetchSuggestions(query,
\* attempt + 1)` runs the nested call up to its first await, then c's `finally`.
BackoffElapsed(c) ==
    /\ c \in calls
    /\ c.pc = "backoff"
    /\ IF FetchRefused
       THEN \* the nested call returns at its entry guard: no request is sent
            /\ calls' = calls \ {c}
            /\ isLoading' = FALSE
            /\ lastDone' = [query |-> c.query, first |-> c.first, final |-> c.first,
                            requests |-> c.requests, endLoading |-> FALSE,
                            endContent |-> listContent.kind,
                            endSuggestions |-> suggestions]
            /\ UNCHANGED <<listContent, listDisplay>>
       ELSE \* the nested call sends the next request; c's finally clears isLoading
            /\ calls' = (calls \ {c})
                     \cup {NewCall(c.query, c.attempt + 1, c.requests + 1, c.first)}
            /\ ShowRow("loading", "")
            /\ isLoading' = FALSE
            /\ UNCHANGED lastDone
    /\ UNCHANGED <<inputValue, debounceTimer, suggestions, currentIndex, suggSource>>
    /\ UNCHANGED <<pinVars, srvVars, geo, svcVars, sel>>
    /\ UNCHANGED closedBySelect

ACNext ==
    \/ \E v \in RawInputs : OnInput(v)
    \/ DebounceFire
    \/ \E c \in calls, o \in FetchOutcomes : FetchResponse(c, o)
    \/ \E c \in calls : BackoffElapsed(c)

\* ------------------------------------------------------------ the navigable list
\* querySelectorAll('.address-suggestion-item').length: the list holds one item
\* per suggestion after displaySuggestions, none under a loading, no-results
\* or error row.
ItemCount == IF listContent.kind = "items" THEN Len(suggestions) ELSE 0

\* isVisible
IsVisible == listDisplay = "block"

\* suggestion.address, the text selectSuggestion puts into the input
SuggestionAddress(s) ==
    s.query \o <<",">>
            \o (IF s.rank = 1 THEN <<"x">> ELSE IF s.rank = 2 THEN <<"y">> ELSE <<"z">>)

\* (mutant) moveSelection stopping at the ends of the list
MovedIndexClamped(index, n, direction) ==
    IF n = 0 THEN index
    ELSE IF index + direction < 0 THEN 0
    ELSE IF index + direction >= n THEN n - 1
    ELSE index + direction

\* this.currentIndex after moveSelection(direction) over n items
MovedIndex(index, n, direction) ==
    IF n = 0 THEN index
    ELSE IF index + direction < 0 THEN n - 1
    ELSE IF index + direction >= n THEN 0
    ELSE index + direction

\* onKeyDown with ArrowDown (1) or ArrowUp (-1): moveSelection(direction)
MoveSelection(direction) ==
    /\ IsVisible
    /\ currentIndex' = MovedIndex(currentIndex, ItemCount, direction)
    /\ UNCHANGED <<inputValue, debounceTimer, isLoading, suggestions, listDisplay,
                   listContent, calls, lastDone, suggSource>>
    /\ UNCHANGED <<pinVars, srvVars, geo, svcVars, sel>>
    /\ UNCHANGED closedBySelect

\* mouseenter on the item at `index`: setActiveIndex(index)
SetActiveIndex(index) ==
    /\ IsVisible
    /\ index < ItemCount
    /\ currentIndex' = index
    /\ UNCHANGED <<inputValue, debounceTimer, isLoading, suggestions, listDisplay,
                   listContent, calls, lastDone, suggSource>>
    /\ UNCHANGED <<pinVars, srvVars, geo, svcVars, sel>>
    /\ UNCHANGED closedBySelect

\* selectSuggestion(index) as far as the session goes: the input gets the
\* address and the list is hidden (setting input.value raises no input event;
\* the writes to the form fields are SelectSuggestion below).
Selected(index) ==
    /\ inputValue' = SuggestionAddress(suggestions[index + 1])
    /\ HideSuggestions
    /\ UNCHANGED <<debounceTimer, isLoading, suggestions, listContent, calls,
                   lastDone, suggSource>>
    /\ UNCHANGED <<pinVars, srvVars, geo, svcVars, sel>>
    /\ closedBySelect' = TRUE

\* click on the item at `index`
ClickSuggestion(index) ==
    /\ IsVisible
    /\ index < ItemCount
    /\ Selected(index)

\* onKeyDown with Enter: selectCurrent
SelectCurrent ==
    /\ IsVisible
    /\ currentIndex >= 0 /\ currentIndex < Len(suggestions)
    /\ Selected(currentIndex)

\* Escape, a click outside the input and the list, or the blur timer
HideEvent ==
    /\ HideSuggestions
    /\ UNCHANGED <<inputValue, debounceTimer, isLoading, suggestions, listContent,
                   calls, lastDone, suggSource>>
    /\ UNCHANGED <<pinVars, srvVars, geo, svcVars, sel>>
    /\ UNCHANGED closedBySelect

\* onFocus
OnFocus ==
    /\ Len(Trim(inputValue)) >= MinLength /\ Len(suggestions) > 0
    /\ listDisplay' = "block"
    /\ UNCHANGED <<inputValue, debounceTimer, isLoading, suggestions, currentIndex,
                   listContent, calls, lastDone, suggSource>>
    /\ UNCHANGED <<pinVars, srvVars, geo, svcVars, sel>>
    /\ closedBySelect' = FALSE

NavNext ==
    \/ \E v \in RawInputs : OnInput(v)
    \/ DebounceFire
    \/ \E c \in calls, o \in FetchOutcomes : FetchResponse(c, o)
    \/ \E c \in calls : BackoffElapsed(c)
    \/ \E direction \in {-1, 1} : MoveSelection(direction)
    \/ \E index \in 0..(MaxSugg - 1) : SetActiveIndex(index)
    \/ \E index \in 0..(MaxSugg - 1) : ClickSuggestion(index)
    \/ SelectCurrent
    \/ HideEvent
    \/ OnFocus


\* ============================================================ ListingMap
\* Largest number of map clicks in one run.
MaxGestures == 2

\* options.retryAttempts
RetryAttempts == 3
\* ListingMap options.retryDelay, in ms
RetryDelay == 1000

\* A number of whole degrees in the model's unit.
Deg(d) == d * 1000000

\* e.latlng of a click. Leaflet does not wrap the longitude of a map that was
\* panned across the antimeridian, so a click can carry lng > 180.
ClickPoints ==
    { [lat |-> 12340000, lng |-> 56780000],
      [lat |-> -33856784, lng |-> 151215249],
      [lat |-> 10000000, lng |-> 190500000] }

\* lat in [-90, 90] and lng in [-180, 180]
InRange(lat, lng) ==
    /\ lat >= Deg(-90) /\ lat <= Deg(90)
    /\ lng >= Deg(-180) /\ lng <= Deg(180)

\* Number.prototype.toFixed(4): the value in units of 10^-4, rounded to nearest.
ToFixed4(x) == IF x >= 0 THEN (x + 50) \div 100 ELSE -((50 - x) \div 100)

\* `${lat.toFixed(4)}, ${lng.toFixed(4)}`, with the text in front of it
CoordLabel(prefix, lat, lng) ==
    [kind |-> "coords", text |-> prefix, lat4 |-> ToFixed4(lat), lng4 |-> ToFixed4(lng)]

\* A provider-formatted address. Its text is a sequence of pieces: a quote
\* character or a backslash is a piece of its own, the pieces between hold none.
Formatted(t) == [kind |-> "formatted", text |-> t, lat4 |-> 0, lng4 |-> 0]

\* null (reverseGeocode found no address)
NULL == [kind |-> "null", text |-> <<>>, lat4 |-> 0, lng4 |-> 0]

\* The empty string.
EmptyText == [kind |-> "empty", text |-> <<>>, lat4 |-> 0, lng4 |-> 0]

\* data.results[0].formatted of the provider's answer for a point: the
\* provider names one address per point, here one with an apostrophe, one
\* with double quotes and a plain one.
ProviderAddress(lat, lng) ==
    CASE lat = 12340000 -> <<"O", "'", "Hare Rd">>
      [] lat = -33856784 -> <<"The ", "\"", "Ritz", "\"", ", London">>
      [] OTHER -> <<"1 Main St">>

\* What the browser's fetch of the provider's reverse endpoint can end in:
\*   ok      - HTTP 200 with a first result and its formatted address
\*   empty   - HTTP 200 with no results
\*   http    - response.ok false, with the status
\*   network - fetch rejects, or the body is not JSON
\*   abort   - the 10 s timer aborted the request (AbortError)
ReverseOutcomes ==
    [kind : {"ok", "empty"}, status : {200}]
    \cup [kind : {"http"}, status : {401, 429, 500}]
    \cup [kind : {"network", "abort"}, status : {0}]

\* An invocation of onMapClick: not made yet ("unused"), awaiting fetch() or the
\* backoff timer with its locals lat, lng, attempt, or returned ("done").
\* (`delay` is the time the pending backoff timer was set to, 0 without one)
NoGesture == [lat |-> 0, lng |-> 0, attempt |-> 0, pc |-> "unused", delay |-> 0]
DoneGesture == [lat |-> 0, lng |-> 0, attempt |-> 0, pc |-> "done", delay |-> 0]

\* `requests` is history: the requests the popup's gesture had sent.
NoPopup == [kind |-> "none", g |-> 0, lat |-> 0, lng |-> 0,
            shown |-> EmptyText, confirmArg |-> EmptyText, source |-> "none",
            requests |-> 0]

\* constructor and init: the marker starts at the container's coordinates
PinStart ==
    /\ gestures = [g \in 1..MaxGestures |-> NoGesture]
    /\ nextGesture = 1
    /\ tempMarkers = {}
    /\ popup = NoPopup
    /\ marker = [lat |-> 20296000, lng |-> 85824600]
    /\ locationField = Formatted(<<"old address">>)
    /\ latField = <<>>
    /\ lngField = <<>>

\* A page with the map, with or without a map token; clicks are taken on the
\* owner's edit or new page only (enableClickGeocoding: canEdit && isEditPage).
PinInit ==
    /\ enableClickGeocoding \in BOOLEAN
    /\ apiKey \in BOOLEAN
    /\ PinStart

\* A page whose map takes no clicks.
PinOff ==
    /\ enableClickGeocoding = FALSE
    /\ apiKey = FALSE
    /\ PinStart

\* `address || ...` and `address || ''`: is the value truthy
Truthy(address) == address # NULL /\ address # EmptyText

\* The text the candidate popup displays as the address.
ShownAddress(address, lat, lng) ==
    IF Truthy(address) THEN address ELSE CoordLabel(<<>>, lat, lng)

\* The single quotes of t in front of position i.
QuotesBefore(t, i) == Cardinality({j \in 1..(i - 1) : t[j] = "'"})

\* .replace(/'/g, "\\'"): a backslash in front of every single quote. Piece i
\* of t lands at position i + QuotesBefore(t, i), behind its backslash if any.
EscapeQuotes(t) ==
    [k \in 1..(Len(t) + QuotesBefore(t, Len(t) + 1)) |->
        LET i == CHOOSE i \in 1..Len(t) :
                    /\ i + QuotesBefore(t, i) <= k
                    /\ k <= i + QuotesBefore(t, i) + (IF t[i] = "'" THEN 1 ELSE 0)
        IN  IF t[i] # "'" THEN t[i]
            ELSE IF k = i + QuotesBefore(t, i) THEN "\\" ELSE "'"]

\* The HTML parser ends the value of onclick="..." at the first double quote.
UpToDoubleQuote(t) ==
    [cut |-> \E i \in 1..Len(t) : t[i] = "\"",
     text |-> SubSeq(t, 1, Cardinality({i \in 1..Len(t) :
                              \A j \in 1..i : t[j] # "\""}))]

\* In the body t of a JavaScript literal '...': the backslashes right in front
\* of position i; an odd number of them makes piece i an escaped one.
RunBefore(t, i) ==
    Cardinality({k \in 1..(i - 1) : \A j \in k..(i - 1) : t[j] = "\\"})
IsEscaped(t, i) == RunBefore(t, i) % 2 = 1
Escaping(t, i) == t[i] = "\\" /\ ~IsEscaped(t, i)

\* The string the literal denotes: the pieces without the escaping
\* backslashes. A bare quote, or an escaping backslash at the end (it takes
\* the closing quote), is a SyntaxError.
LiteralValue(t) ==
    LET kept == {i \in 1..Len(t) : ~Escaping(t, i)}
    IN  [ok |-> /\ \A i \in 1..Len(t) : t[i] = "'" => IsEscaped(t, i)
                /\ (t = <<>> \/ ~Escaping(t, Len(t))),
         text |-> [k \in 1..Cardinality(kept) |->
                     t[CHOOSE i \in kept : Cardinality({j \in kept : j <= i}) = k]]]

\* The button's handler does not compile: a click on it does nothing.
HandlerError == [kind |-> "error", text |-> <<>>, lat4 |-> 0, lng4 |-> 0]

\* What the button's handler makes of an address text written into
\*   onclick="listingMap.confirmLocation(lat, lng, '${(address || '').replace(/'/g, "\\'")}')"
\* the text escaped, cut by the HTML parser, read as a string literal.
HandlerArg(t) ==
    LET attr == UpToDoubleQuote(EscapeQuotes(t))
        lit == LiteralValue(attr.text)
    IN  IF attr.cut \/ ~lit.ok THEN HandlerError
        ELSE IF lit.text = <<>> THEN EmptyText
        ELSE Formatted(lit.text)

\* HandlerArg of the addresses the provider names.
HandlerArgs ==
    [t \in {ProviderAddress(p.lat, p.lng) : p \in ClickPoints} |-> HandlerArg(t)]

\* The third argument confirmLocation gets from the popup's button.
\* (A coordinate label holds no quote.)
ConfirmArg(address, lat, lng) ==
    IF ~Truthy(address) THEN EmptyText
    ELSE IF address.kind # "formatted" THEN address
    ELSE HandlerArgs[address.text]

\* (mutant) the temporary marker is removed only when an address was found
TempAfterResolveKeptOnNull(temps, g, address) ==
    IF address = NULL THEN temps ELSE temps \ {g}

\* The temporary markers once gesture g has its address: map.removeLayer(tempMarker)
TempAfterResolve(temps, g, address) == temps \ {g}

\* onMapClick after `await this.reverseGeocode(lat, lng)` returned address:
\* remove the temporary marker, open the popup with confirm and cancel.
Resolve(g, lat, lng, address, requests) ==
    /\ gestures' = [gestures EXCEPT ![g] = DoneGesture]
    /\ tempMarkers' = TempAfterResolve(tempMarkers \cup {g}, g, address)
    /\ popup' = [kind |-> "candidate", g |-> g, lat |-> lat, lng |-> lng,
                 shown |-> ShownAddress(address, lat, lng),
                 confirmArg |-> ConfirmArg(address, lat, lng),
                 source |-> IF address = NULL THEN "fallback" ELSE "resolved",
                 requests |-> requests]

\* (mutant) onMapClick without its check of enableClickGeocoding
OnMapClickIgnoringOption(p) ==
    /\ nextGesture <= MaxGestures
    /\ nextGesture' = nextGesture + 1
    /\ IF apiKey
       THEN /\ gestures' = [gestures EXCEPT ![nextGesture] =
                   [lat |-> p.lat, lng |-> p.lng, attempt |-> 1, pc |-> "fetch",
                    delay |-> 0]]
            /\ tempMarkers' = tempMarkers \cup {nextGesture}
            /\ popup' = [NoPopup EXCEPT !.kind = "loading", !.g = nextGesture,
                                        !.lat = p.lat, !.lng = p.lng]
       ELSE Resolve(nextGesture, p.lat, p.lng, NULL, 0)
    /\ UNCHANGED <<enableClickGeocoding, apiKey, marker, locationField, latField, lngField>>
    /\ UNCHANGED <<acVars, srvVars, geo, svcVars, sel>>

\* onMapClick up to its await: temporary marker, loading popup, first request.
\* Without an API key reverseGeocode returns null at once.
OnMapClick(p) ==
    /\ enableClickGeocoding
    /\ nextGesture <= MaxGestures
    /\ nextGesture' = nextGesture + 1
    /\ IF apiKey
       THEN /\ gestures' = [gestures EXCEPT ![nextGesture] =
                   [lat |-> p.lat, lng |-> p.lng, attempt |-> 1, pc |-> "fetch",
                    delay |-> 0]]
            /\ tempMarkers' = tempMarkers \cup {nextGesture}
            /\ popup' = [NoPopup EXCEPT !.kind = "loading", !.g = nextGesture,
                                        !.lat = p.lat, !.lng = p.lng]
       ELSE Resolve(nextGesture, p.lat, p.lng, NULL, 0)
    /\ UNCHANGED <<enableClickGeocoding, apiKey, marker, locationField, latField, lngField>>
    /\ UNCHANGED <<acVars, srvVars, geo, svcVars, sel>>

\* (mutant) reverseGeocode retrying once more than retryAttempts allows
ReverseRetriesOnceMore(attempt, o) ==
    \/ o.kind = "http" /\ attempt <= RetryAttempts + 1
    \/ o.kind = "network" /\ attempt <= RetryAttempts + 1

\* (mutant) reverseGeocode retrying an aborted request like any other failure
ReverseRetriesAbortToo(attempt, o) ==
    \/ o.kind = "http" /\ attempt <= RetryAttempts
    \/ o.kind \in {"network", "abort"} /\ attempt <= RetryAttempts

\* Does reverseGeocode wait retryDelay * attempt and call itself again
\*   429 while attempt <= retryAttempts; another status throws Error("HTTP ..."),
\*   which the catch retries, as it does a network error, while attempt <=
\*   retryAttempts and the message holds no "429"; an AbortError is not retried.
ReverseRetries(attempt, o) ==
    \/ o.kind = "http" /\ o.status = 429 /\ attempt <= RetryAttempts
    \/ o.kind = "http" /\ o.status # 429 /\ attempt <= RetryAttempts
    \/ o.kind = "network" /\ attempt <= RetryAttempts

\* What reverseGeocode returns for an outcome it does not retry.
ReverseResult(lat, lng, o) ==
    CASE o.kind = "ok" -> Formatted(ProviderAddress(lat, lng))
      [] o.kind = "empty" -> CoordLabel(<<"Location: ">>, lat, lng)
      [] OTHER -> NULL

\* The await of fetch() in gesture g's reverseGeocode ends in outcome o.
ReverseResponse(g, o) ==
    /\ gestures[g].pc = "fetch"
    /\ IF ReverseRetries(gestures[g].attempt, o)
       THEN /\ gestures' = [gestures EXCEPT ![g].pc = "backoff",
                              ![g].delay = RetryDelay * gestures[g].attempt]
            /\ UNCHANGED <<tempMarkers, popup>>
       ELSE Resolve(g, gestures[g].lat, gestures[g].lng,
                    ReverseResult(gestures[g].lat, gestures[g].lng, o),
                    gestures[g].attempt)
    /\ UNCHANGED <<enableClickGeocoding, apiKey, nextGesture, marker,
                   locationField, latField, lngField>>
    /\ UNCHANGED <<acVars, srvVars, geo, svcVars, sel>>

\* The backoff timer of gesture g fires: reverseGeocode(lat, lng, attempt + 1)
ReverseBackoffElapsed(g) ==
    /\ gestures[g].pc = "backoff"
    /\ gestures' = [gestures EXCEPT ![g].pc = "fetch", ![g].attempt = @ + 1,
                                    ![g].delay = 0]
    /\ UNCHANGED <<enableClickGeocoding, apiKey, nextGesture, tempMarkers, popup,
                   marker, locationField, latField, lngField>>
    /\ UNCHANGED <<acVars, srvVars, geo, svcVars, sel>>

\* updateLocationFields: the location only when the address is truthy
UpdateLocationFields(lat, lng, address) ==
    /\ locationField' = IF Truthy(address) THEN address ELSE locationField
    /\ latField' = <<lat>>
    /\ lngField' = <<lng>>

\* The value of the location input as the autocomplete session reads it
\* (e.target.value.trim()): the pieces of the text; a coordinate label as its
\* prefix and its two numbers.
FieldQuery(field) ==
    CASE field.kind = "formatted" -> field.text
      [] field.kind = "coords" -> field.text \o <<ToString(field.lat4), ", ",
                                                   ToString(field.lng4)>>
      [] OTHER -> <<>>

\* query.length >= minLength for a value of the location field: every text of
\* the map that is not empty ("old address", the provider's addresses, the
\* coordinate labels) has more than minLength characters.
FieldLongEnough(field) == FieldQuery(field) # <<>>

\* triggerFormValidation: the 'input' event it dispatches on the location
\* field runs AddressAutocomplete.onInput, bound to the same field.
TriggerFormValidation(field) ==
    /\ inputValue' = FieldQuery(field)
    /\ closedBySelect' = FALSE
    /\ IF FieldLongEnough(field)
       THEN /\ debounceTimer' = [armed |-> TRUE, query |-> FieldQuery(field)]
            /\ UNCHANGED <<listDisplay, currentIndex>>
       ELSE /\ HideSuggestions
            /\ UNCHANGED debounceTimer
    /\ UNCHANGED <<isLoading, suggestions, listContent, calls, lastDone, suggSource>>

\* "Use This Location": confirmLocation(lat, lng, arg) -> closePopup,
\* setLocation, triggerFormValidation
ConfirmLocation ==
    /\ popup.kind = "candidate"
    /\ popup.confirmArg # HandlerError
    /\ popup' = NoPopup
    /\ marker' = [lat |-> popup.lat, lng |-> popup.lng]
    /\ UpdateLocationFields(popup.lat, popup.lng, popup.confirmArg)
    /\ TriggerFormValidation(IF Truthy(popup.confirmArg) THEN popup.confirmArg
                             ELSE locationField)
    /\ UNCHANGED <<enableClickGeocoding, apiKey, gestures, nextGesture, tempMarkers>>
    /\ UNCHANGED <<srvVars, geo, svcVars, sel>>

\* (mutant) a cancel that leaves the permanent marker at the candidate
CancelPopupMovingMarker ==
    /\ popup.kind = "candidate"
    /\ popup' = NoPopup
    /\ marker' = [lat |-> popup.lat, lng |-> popup.lng]
    /\ UNCHANGED <<enableClickGeocoding, apiKey, gestures, nextGesture, tempMarkers,
                   locationField, latField, lngField>>
    /\ UNCHANGED <<acVars, srvVars, geo, svcVars, sel>>

\* "Cancel": listingMap.map.closePopup()
CancelPopup ==
    /\ popup.kind = "candidate"
    /\ popup' = NoPopup
    /\ UNCHANGED <<enableClickGeocoding, apiKey, gestures, nextGesture, tempMarkers,
                   marker, locationField, latField, lngField>>
    /\ UNCHANGED <<acVars, srvVars, geo, svcVars, sel>>

PinNext ==
    \/ \E p \in ClickPoints : OnMapClick(p)
    \/ \E g \in 1..MaxGestures, o \in ReverseOutcomes : ReverseResponse(g, o)
    \/ \E g \in 1..MaxGestures : ReverseBackoffElapsed(g)
    \/ ConfirmLocation
    \/ CancelPopup

\* ============================================================ GeocodingService
\* JavaScript's undefined, and a value that is not a string (an array, say).
Undefined == "<undefined>"
NonString == "<non-string>"

\* `!x` is false: x is a non-empty string (or another truthy value)
TruthyStr(x) == x # Undefined /\ x # ""

\* DEFAULT_COORDINATES.lat and .lng (20.2960, 85.8246)
DefaultLat == 20296000
DefaultLng == 85824600

\* The addresses a request body or a caller can hand over.
Addresses ==
    { Undefined, "", NonString,
      "221B Baker Street, London", "221B Baker St, London, UK" }

\* response.data.results[0] of the provider's search endpoint.
FirstResults ==
    [lon : {-158600}, lat : {51523700},
     formatted : {Undefined, "221B Baker St, London, UK"},
     country : {Undefined, "United Kingdom"}]

NoFirst == [lon |-> 0, lat |-> 0, formatted |-> Undefined, country |-> Undefined]

\* What axios.get on the search endpoint can end in:
\*   results - HTTP 2xx, data.results non-empty, with its first element
\*   empty   - HTTP 2xx, data.results empty
\*   nobody  - HTTP 2xx, data or data.results missing
\*   malformed - HTTP 2xx, data.results[0] is null: reading result.lon throws
\*   http    - axios rejects with error.response.status = status
\*   timeout, network - axios rejects without error.response
SearchOutcomes ==
    [kind : {"results"}, first : FirstResults, status : {200}]
    \cup [kind : {"empty", "nobody", "malformed"}, first : {NoFirst}, status : {200}]
    \cup [kind : {"http"}, first : {NoFirst}, status : {401, 429, 500}]
    \cup [kind : {"timeout", "network"}, first : {NoFirst}, status : {0}]

NoCoordinates == <<>>
NoError == "<null>"

\* `a || b` on strings
OrElse(a, b) == IF TruthyStr(a) THEN a ELSE b

\* error.message of the rejected axios call
AxiosMessage(up) ==
    CASE up.kind = "timeout" -> "timeout of 10000ms exceeded"
      [] up.kind = "network" -> "Network Error"
      [] up.kind = "malformed" -> "Cannot read properties of null"
      [] OTHER -> "Request failed with status code"

\* The return for an address that is empty or not a string.
InvalidAddressResult ==
    [success |-> FALSE, error |-> "Invalid address provided",
     coordinates |-> NoCoordinates, address |-> Undefined, country |-> Undefined,
     threw |-> FALSE]

\* (mutant) the success return with latitude first
SuccessResultLatFirst(address, first) ==
    [success |-> TRUE,
     coordinates |-> <<first.lat, first.lon>>,
     address |-> OrElse(first.formatted, address),
     country |-> OrElse(first.country, ""),
     error |-> NoError, threw |-> FALSE]

\* The return for a non-empty results array: its first element only.
SuccessResult(address, first) ==
    [success |-> TRUE,
     coordinates |-> <<first.lon, first.lat>>,
     address |-> OrElse(first.formatted, address),
     country |-> OrElse(first.country, ""),
     error |-> NoError, threw |-> FALSE]

\* (mutant) the no-results return without its error text
NoResultsResultNullError(address) ==
    [success |-> FALSE, error |-> NoError,
     coordinates |-> NoCoordinates, address |-> address, country |-> Undefined,
     threw |-> FALSE]

\* The return for an empty or missing results array.
NoResultsResult(address) ==
    [success |-> FALSE, error |-> "No results found for the provided address",
     coordinates |-> NoCoordinates, address |-> address, country |-> Undefined,
     threw |-> FALSE]

\* (mutant) a catch block without the 429 case
FailureResultNo429(address, up) ==
    [success |-> FALSE,
     error |-> CASE up.kind = "http" /\ up.status = 401 ->
                      "Invalid API key for geocoding service"
                 [] OTHER -> "Geocoding failed: " \o AxiosMessage(up),
     coordinates |-> NoCoordinates, address |-> address, country |-> Undefined,
     threw |-> FALSE]

\* The return of the catch block (`threw`: the call rejected instead of
\* returning; every path of the function is a return).
FailureResult(address, up) ==
    [success |-> FALSE,
     error |-> CASE up.kind = "http" /\ up.status = 401 ->
                      "Invalid API key for geocoding service"
                 [] up.kind = "http" /\ up.status = 429 ->
                      "Rate limit exceeded for geocoding service"
                 [] OTHER -> "Geocoding failed: " \o AxiosMessage(up),
     coordinates |-> NoCoordinates, address |-> address, country |-> Undefined,
     threw |-> FALSE]

\* geocodeAddress: what it returns for `address` when the provider answers `up`
GeocodeAddress(address, up) ==
    IF ~TruthyStr(address) \/ address = NonString
    THEN InvalidAddressResult
    ELSE CASE up.kind = "results" -> SuccessResult(address, up.first)
           [] up.kind \in {"empty", "nobody"} -> NoResultsResult(address)
           [] OTHER -> FailureResult(address, up)

NoResult == [success |-> FALSE, error |-> NoError, coordinates |-> NoCoordinates,
             address |-> Undefined, country |-> Undefined, threw |-> FALSE]

\* A caller is about to call geocodeAddress(address) and the provider will answer up.
GeoInit ==
    geo \in [address : Addresses, up : SearchOutcomes, called : {FALSE}, result : {NoResult}]

\* The call returns.
GeocodeAddressCall ==
    /\ ~geo.called
    /\ geo' = [geo EXCEPT !.called = TRUE, !.result = GeocodeAddress(geo.address, geo.up)]
    /\ UNCHANGED <<acVars, pinVars, srvVars, svcVars, sel>>

\* The next call, with other inputs.
GeoNextInput ==
    /\ geo.called
    /\ geo' \in [address : Addresses, up : SearchOutcomes, called : {FALSE},
                 result : {NoResult}]
    /\ UNCHANGED <<acVars, pinVars, srvVars, svcVars, sel>>

GeoNext == GeocodeAddressCall \/ GeoNextInput

GeoOff == geo = [address |-> Undefined, up |-> [kind |-> "empty", first |-> NoFirst,
                 status |-> 200], called |-> FALSE, result |-> NoResult]

\* ------------------------------------------------ GeocodingService.reverseGeocode
\* A JavaScript value handed over as a coordinate: a finite number (v in units
\* of 10^-6 degree), NaN, Infinity, undefined, or a numeric string.
Num(v) == [t |-> "number", v |-> v]
NaN == [t |-> "nan", v |-> 0]
Infinity == [t |-> "inf", v |-> 0]
UndefinedValue == [t |-> "undefined", v |-> 0]
NumericString(v) == [t |-> "string", v |-> v]

\* `!x`
Falsy(x) == x.t \in {"undefined", "nan"} \/ (x.t = "number" /\ x.v = 0)

\* typeof x === 'number'
TypeofNumber(x) == x.t \in {"number", "nan", "inf"}

\* The lat and lng a caller can hand to reverseGeocode.
LatInputs ==
    { Num(0), Num(12340000), Num(-33856784), Num(95000000),
      NaN, Infinity, UndefinedValue, NumericString(12340000) }
LngInputs ==
    { Num(0), Num(56780000), Num(151215249), Num(190500000), NaN, UndefinedValue }

\* An address value of a reverse result: null, a formatted string, or the
\* template `${lat}, ${lng}`, which prints both values in full.
NullAddress == [kind |-> "null", text |-> "", lat |-> UndefinedValue, lng |-> UndefinedValue]
FormattedAddress(t) ==
    [kind |-> "formatted", text |-> t, lat |-> UndefinedValue, lng |-> UndefinedValue]
TemplateLabel(lat, lng) == [kind |-> "label", text |-> "", lat |-> lat, lng |-> lng]

\* What axios.get on the reverse endpoint can end in (as SearchOutcomes), with
\* data.results[0].formatted of a non-empty result.
RevOutcomes ==
    [kind : {"results"}, formatted : {Undefined, "1 Main St"}, status : {200}]
    \cup [kind : {"empty", "nobody", "malformed"}, formatted : {Undefined}, status : {200}]
    \cup [kind : {"http"}, formatted : {Undefined}, status : {401, 429, 500}]
    \cup [kind : {"timeout", "network"}, formatted : {Undefined}, status : {0}]

\* if (!lat || !lng || typeof lat !== 'number' || typeof lng !== 'number')
RevRejects(lat, lng) ==
    Falsy(lat) \/ Falsy(lng) \/ ~TypeofNumber(lat) \/ ~TypeofNumber(lng)

\* The return of reverseGeocode's catch block.
RevFailureResult(lat, lng, up) ==
    [success |-> FALSE, error |-> "Reverse geocoding failed: " \o AxiosMessage(up),
     address |-> TemplateLabel(lat, lng), threw |-> FALSE]

\* reverseGeocode: what it returns for (lat, lng) when the provider answers up
ReverseGeocode(lat, lng, up) ==
    IF RevRejects(lat, lng)
    THEN [success |-> FALSE, error |-> "Invalid coordinates provided",
          address |-> NullAddress, threw |-> FALSE]
    ELSE CASE up.kind = "results" ->
                [success |-> TRUE, error |-> NoError,
                 address |-> IF TruthyStr(up.formatted)
                             THEN FormattedAddress(up.formatted)
                             ELSE TemplateLabel(lat, lng),
                 threw |-> FALSE]
           [] up.kind \in {"empty", "nobody"} ->
                [success |-> FALSE,
                 error |-> "No address found for the provided coordinates",
                 address |-> TemplateLabel(lat, lng), threw |-> FALSE]
           [] OTHER -> RevFailureResult(lat, lng, up)

NoRevResult == [success |-> FALSE, error |-> NoError, address |-> NullAddress,
                threw |-> FALSE]

\* A caller is about to call reverseGeocode(lat, lng); the provider would answer up.
RevInit ==
    rev \in [lat : LatInputs, lng : LngInputs, up : RevOutcomes, called : {FALSE},
             requested : {FALSE}, result : {NoRevResult}]

\* The call returns; `requested` is history: axios.get was called.
ReverseGeocodeCall ==
    /\ ~rev.called
    /\ rev' = [rev EXCEPT !.called = TRUE,
                          !.requested = ~RevRejects(rev.lat, rev.lng),
                          !.result = ReverseGeocode(rev.lat, rev.lng, rev.up)]
    /\ UNCHANGED <<acVars, pinVars, srvVars, geo, sug, api, sel>>

RevOff == rev = [lat |-> UndefinedValue, lng |-> UndefinedValue,
                 up |-> [kind |-> "empty", formatted |-> Undefined, status |-> 200],
                 called |-> FALSE, requested |-> FALSE, result |-> NoRevResult]

\* ------------------------------- GeocodingService.getAutocompleteSuggestions
\* A JavaScript value handed over as a query: undefined, an array (a repeated
\* URL parameter), or a string, kept as its sequence of characters.
UndefinedQuery == [t |-> "undefined", chars |-> <<>>]
ArrayQuery == [t |-> "array", chars |-> <<>>]
Str(chars) == [t |-> "string", chars |-> chars]

\* `!query || typeof query !== 'string'`
NotAString(q) == q.t # "string" \/ q.chars = <<>>

\* The queries a caller can hand to getAutocompleteSuggestions.
SugQueries ==
    { UndefinedQuery, ArrayQuery, Str(<<>>), Str(<<"a", "b">>), Str(<<"a", "b", " ">>),
      Str(<<"a", "b", "c">>), Str(<<" ", "a", "b", "c">>), Str(<<" ", " ", " ">>) }

\* The options argument: left out (the default {}), an object {limit, country},
\* or null, whose .limit cannot be read.
SugOptions == {"default", "object", "null"}

\* An element of the provider's data.results.
ProviderResult(i) ==
    [formatted |-> IF i = 1 THEN "1 Main St" ELSE Undefined,
     lon |-> 56780000 + i, lat |-> 12340000 + i,
     country |-> IF i = 1 THEN "India" ELSE Undefined]

\* results.map(result => ({address, coordinates, country, ...}))
ToSuggestion(r) ==
    [address |-> r.formatted, coordinates |-> <<r.lon, r.lat>>,
     country |-> OrElse(r.country, "")]

\* What axios.get on the autocomplete endpoint can end in:
\*   results - HTTP 2xx with data.results an array of n elements
\*   nobody  - HTTP 2xx, data or data.results missing
\*   malformed - HTTP 2xx, data.results is not an array: results.map throws
\*   http, timeout, network - axios rejects
SugOutcomes ==
    [kind : {"results"}, n : 0..MaxSugg, status : {200}]
    \cup [kind : {"nobody", "malformed"}, n : {0}, status : {200}]
    \cup [kind : {"http"}, n : {0}, status : {401, 429, 500}]
    \cup [kind : {"timeout", "network"}, n : {0}, status : {0}]

\* error.message of what the try block threw
SugErrorMessage(options, up) ==
    CASE options = "null" -> "Cannot read properties of null (reading 'limit')"
      [] up.kind = "timeout" -> "timeout of 5000ms exceeded"
      [] up.kind = "network" -> "Network Error"
      [] up.kind = "malformed" -> "response.data.results.map is not a function"
      [] up.kind = "http" /\ up.status = 401 -> "Request failed with status code 401"
      [] up.kind = "http" /\ up.status = 429 -> "Request failed with status code 429"
      [] OTHER -> "Request failed with status code 500"

\* if (!query || typeof query !== 'string' || query.length < 3)
SugRejects(query) == NotAString(query) \/ Len(query.chars) < 3

\* params.text: query.trim(); <<>> when no request is made. options.limit is
\* read before axios.get, so null options throw before any request.
SugSentText(query, options) ==
    IF SugRejects(query) \/ options = "null" THEN <<>> ELSE <<Trim(query.chars)>>

\* (mutant) the catch block of getAutocompleteSuggestions rethrowing
SugFailureResultRethrows(options, up) ==
    [success |-> FALSE, suggestions |-> <<>>,
     error |-> "Autocomplete failed: " \o SugErrorMessage(options, up), threw |-> TRUE]

\* The return of getAutocompleteSuggestions' catch block.
SugFailureResult(options, up) ==
    [success |-> FALSE, suggestions |-> <<>>,
     error |-> "Autocomplete failed: " \o SugErrorMessage(options, up), threw |-> FALSE]

\* getAutocompleteSuggestions: what it returns when the provider answers up
GetAutocompleteSuggestions(query, options, up) ==
    IF SugRejects(query)
    THEN [success |-> FALSE, suggestions |-> <<>>,
          error |-> "Query must be at least 3 characters long", threw |-> FALSE]
    ELSE IF options = "null" THEN SugFailureResult(options, up)
    ELSE CASE up.kind = "results" ->
                [success |-> TRUE,
                 suggestions |-> [i \in 1..up.n |-> ToSuggestion(ProviderResult(i))],
                 error |-> NoError, threw |-> FALSE]
           [] up.kind = "nobody" ->
                [success |-> FALSE, suggestions |-> <<>>,
                 error |-> "No suggestions found", threw |-> FALSE]
           [] OTHER -> SugFailureResult(options, up)

NoSugResult == [success |-> FALSE, suggestions |-> <<>>, error |-> NoError,
                threw |-> FALSE]

\* A caller is about to call getAutocompleteSuggestions(query, options).
SugInit ==
    sug \in [query : SugQueries, options : SugOptions, up : SugOutcomes,
             called : {FALSE}, sent : {<<>>}, result : {NoSugResult}]

\* The call returns; `sent` is history: the text handed to axios.get, if any.
GetAutocompleteSuggestionsCall ==
    /\ ~sug.called
    /\ sug' = [sug EXCEPT !.called = TRUE,
                          !.sent = SugSentText(sug.query, sug.options),
                          !.result = GetAutocompleteSuggestions(sug.query, sug.options,
                                                                sug.up)]
    /\ UNCHANGED <<acVars, pinVars, srvVars, geo, rev, api, sel>>

SugOff == sug = [query |-> UndefinedQuery, options |-> "default",
                 up |-> [kind |-> "nobody", n |-> 0, status |-> 200],
                 called |-> FALSE, sent |-> <<>>, result |-> NoSugResult]

\* ------------------------------------------------ getAddressSuggestions (endpoint)
\* A string of n characters "x".
Rep(n) == [i \in 1..n |-> "x"]

\* req.query.query of a request.
ApiQueries ==
    { UndefinedQuery, ArrayQuery, Str(<<>>), Str(<<"a">>), Str(<<"a", "b">>),
      Str(<<"a", "b", " ">>), Str(<<" ", " ">>), Str(<<"a", "b", "c">>),
      Str(Rep(200)), Str(Rep(201)) }

\* req.query.country of a request.
ApiCountries == {Undefined, "IN"}

NoResponse == [status |-> 0, success |-> FALSE, suggestions |-> <<>>, error |-> NoError]

\* res.status(status).json({success: false, suggestions: [], error})
ErrorResponse(status, error) ==
    [status |-> status, success |-> FALSE, suggestions |-> <<>>, error |-> error]

\* The provider was not asked.
NoUpstream == [kind |-> "none", n |-> 0, status |-> 0]

\* No request yet. `called`, `arg` and `up` are history: the service was called,
\* with arg, and the provider answered up.
ApiInit ==
    api = [pc |-> "idle", broken |-> FALSE, query |-> UndefinedQuery,
           country |-> Undefined, token |-> FALSE, called |-> FALSE,
           arg |-> UndefinedQuery, up |-> NoUpstream, response |-> NoResponse]

\* (mutant) the validation without the upper limit
ValidationResponseNoMax(query) ==
    IF NotAString(query)
    THEN ErrorResponse(400, "Query parameter is required and must be a string")
    ELSE IF Len(query.chars) < 2
    THEN ErrorResponse(400, "Query must be at least 2 characters long")
    ELSE NoResponse

\* The response to a query the handler turns down, NoResponse for one it accepts.
ValidationResponse(query) ==
    IF NotAString(query)
    THEN ErrorResponse(400, "Query parameter is required and must be a string")
    ELSE IF Len(query.chars) < 2
    THEN ErrorResponse(400, "Query must be at least 2 characters long")
    ELSE IF Len(query.chars) > 200
    THEN ErrorResponse(400, "Query is too long")
    ELSE NoResponse

\* getAddressSuggestions up to `await getAutocompleteSuggestions(query.trim(), options)`.
\* broken: req.query is undefined, so the destructuring throws into the catch.
GetAddressSuggestions(broken, query, country, token) ==
    /\ api.pc \in {"idle", "done"}
    /\ LET r == [pc |-> "done", broken |-> broken, query |-> query, country |-> country,
                 token |-> token, called |-> FALSE, arg |-> UndefinedQuery,
                 up |-> NoUpstream, response |-> NoResponse]
       IN  api' =
             IF broken
             THEN [r EXCEPT !.response =
                      ErrorResponse(500, "Failed to get address suggestions")]
             ELSE IF ValidationResponse(query) # NoResponse
             THEN [r EXCEPT !.response = ValidationResponse(query)]
             ELSE IF ~token
             THEN [r EXCEPT !.response =
                      ErrorResponse(500, "Geocoding service not available")]
             ELSE [r EXCEPT !.pc = "awaiting", !.called = TRUE,
                            !.arg = Str(Trim(query.chars))]
    /\ UNCHANGED <<acVars, pinVars, srvVars, geo, rev, sug, sel>>

\* The response for the service's result: result.success || false, the
\* suggestions, result.error || null; the catch's response had the call thrown.
ServiceResponse(result) ==
    IF result.threw
    THEN ErrorResponse(500, "Failed to get address suggestions")
    ELSE [status |-> 200, success |-> result.success,
          suggestions |-> result.suggestions,
          error |-> IF result.error = "" THEN NoError ELSE result.error]

\* The service call returns and the handler answers.
SuggestionsReturned(up) ==
    /\ api.pc = "awaiting"
    /\ api' = [api EXCEPT !.pc = "done",
                  !.up = IF SugRejects(api.arg) THEN NoUpstream ELSE up,
                  !.response = ServiceResponse(
                      GetAutocompleteSuggestions(api.arg, "object", up))]
    /\ UNCHANGED <<acVars, pinVars, srvVars, geo, rev, sug, sel>>

ApiNext ==
    \/ \E b \in BOOLEAN, q \in ApiQueries, c \in ApiCountries, t \in BOOLEAN :
          GetAddressSuggestions(b, q, c, t)
    \/ \E up \in SugOutcomes : SuggestionsReturned(up)

\* The three client functions, each called once.
ClientNext ==
    \/ GeocodeAddressCall
    \/ ReverseGeocodeCall
    \/ GetAutocompleteSuggestionsCall

\* ------------------------------------------------ AddressAutocomplete.selectSuggestion
\* this.suggestions as the endpoint delivered it: the second entry's
\* coordinates are out of range, the third has no country.
ShownSuggestions ==
    << [address |-> "1 Main St", coordinates |-> <<56780000, 12340000>>,
        country |-> "India"],
       [address |-> "2 High St", coordinates |-> <<190500000, 10000000>>,
        country |-> "Nepal"],
       [address |-> "3 Low Rd", coordinates |-> <<151215249, -33856784>>,
        country |-> ""] >>

\* The values the form's fields can hold before a selection. The latitude and
\* longitude fields hold <<>> while empty, <<number>> once written.
FieldTexts == {"", "typed"}
FieldCountries == {"", "Bhutan"}
FieldNumbers == {<<>>, <<1000000>>}

\* The four fields of the form.
Fields(s) == [location |-> s.location, country |-> s.country,
              latitude |-> s.latitude, longitude |-> s.longitude]

\* `last` is history: the index of the selection just made (0: none) and the
\* fields it left; `twice`: the selection just made repeated the one before.
NoSelection == [index |-> 0, fields |-> [location |-> "", country |-> "",
                latitude |-> <<>>, longitude |-> <<>>]]

\* A page with (or without) window.listingMap, fields filled or not, and the
\* suggestions list open.
SelInit ==
    sel \in [location : FieldTexts, country : FieldCountries,
             latitude : FieldNumbers, longitude : FieldNumbers,
             hasMap : BOOLEAN, listDisplay : {"block"}, currentIndex : {-1},
             mapAt : {<<>>}, fallback : {FALSE},
             last : {NoSelection}, first : {NoSelection},
             twice : {FALSE}]

SelOff == sel = [location |-> "", country |-> "", latitude |-> <<>>,
                 longitude |-> <<>>, hasMap |-> FALSE, listDisplay |-> "none",
                 currentIndex |-> -1, mapAt |-> <<>>, fallback |-> FALSE,
                 last |-> NoSelection,
                 first |-> NoSelection, twice |-> FALSE]

\* (mutant) updateRelatedFields appending the country to the field
UpdateRelatedFieldsAppending(s, suggestion) ==
    [s EXCEPT !.country = IF suggestion.country # "" THEN @ \o suggestion.country ELSE @,
              !.latitude = <<suggestion.coordinates[2]>>,
              !.longitude = <<suggestion.coordinates[1]>>]

\* updateRelatedFields: the country only into an empty field, the coordinates
\* always ([lng, lat] = suggestion.coordinates).
UpdateRelatedFields(s, suggestion) ==
    [s EXCEPT !.country = IF suggestion.country # "" /\ @ = ""
                          THEN suggestion.country ELSE @,
              !.latitude = <<suggestion.coordinates[2]>>,
              !.longitude = <<suggestion.coordinates[1]>>]

\* updateMapLocation: with a map and a coordinate pair in range,
\* listingMap.setLocation moves the marker and updateLocationFields writes the
\* three fields again; a pair out of range is only logged. geocodeAndUpdateMap
\* (`fallback`) is started only for a suggestion without coordinates, which
\* NoCoordinates stands for here.
UpdateMapLocation(s, suggestion) ==
    LET lng == suggestion.coordinates[1]
        lat == suggestion.coordinates[2]
    IN  IF s.hasMap /\ suggestion.coordinates # NoCoordinates
             /\ Len(suggestion.coordinates) = 2
        THEN IF InRange(lat, lng)
             THEN [s EXCEPT !.mapAt = <<lat, lng>>,
                            !.location = IF suggestion.address # ""
                                         THEN suggestion.address ELSE @,
                            !.latitude = <<lat>>, !.longitude = <<lng>>,
                            !.fallback = FALSE]
             ELSE [s EXCEPT !.fallback = FALSE]
        ELSE [s EXCEPT !.fallback = s.hasMap /\ suggestion.coordinates = NoCoordinates]

\* selectSuggestion(index), index counted from 1 here: nothing without such a
\* suggestion; else the input, the related fields, the list hidden, the map.
SelectSuggestion(index) ==
    /\ IF index > Len(ShownSuggestions)
       THEN sel' = [sel EXCEPT !.last = NoSelection, !.twice = FALSE]
       ELSE LET suggestion == ShownSuggestions[index]
                s1 == [sel EXCEPT !.location = suggestion.address]
                s2 == UpdateRelatedFields(s1, suggestion)
                s3 == [s2 EXCEPT !.listDisplay = "none", !.currentIndex = -1]
                s4 == UpdateMapLocation(s3, suggestion)
            IN  sel' = [s4 EXCEPT !.last = [index |-> index, fields |-> Fields(s4)],
                                  !.first = sel.last,
                                  !.twice = (sel.last.index = index)]
    /\ UNCHANGED <<acVars, pinVars, srvVars, geo, svcVars>>

\* The user types into a field between selections.
EditFields(location, country) ==
    /\ sel.last # NoSelection
    /\ sel' = [sel EXCEPT !.location = location, !.country = country,
                          !.last = NoSelection, !.first = NoSelection,
                          !.twice = FALSE]
    /\ UNCHANGED <<acVars, pinVars, srvVars, geo, svcVars>>

SelNext ==
    \/ \E i \in 1..(Len(ShownSuggestions) + 1) : SelectSuggestion(i)
    \/ \E l \in FieldTexts, c \in FieldCountries : EditFields(l, c)

\* ============================================================ listing controller
\* listing.geometry: `present` is "listing.geometry is truthy", `hasCoordinates`
\* is "listing.geometry.coordinates is truthy" (an empty array is truthy).
NoGeometry == [present |-> FALSE, type |-> Undefined, hasCoordinates |-> FALSE,
               coordinates |-> <<>>]
Point(coords) == [present |-> TRUE, type |-> "Point", hasCoordinates |-> TRUE,
                  coordinates |-> coords]
\* A geometry that holds only an empty coordinates array.
EmptyGeometry == [present |-> TRUE, type |-> Undefined, hasCoordinates |-> TRUE,
                  coordinates |-> <<>>]

\* (mutant) the fallback with latitude first
DefaultGeometryLatFirst == Point(<<DefaultLat, DefaultLng>>)

\* {type: "Point", coordinates: [DEFAULT_COORDINATES.lng, DEFAULT_COORDINATES.lat]}
DefaultGeometry == Point(<<DefaultLng, DefaultLat>>)

\* The geometry a listing can hold before a request: none (a listing stored
\* before geometry existed), a point, or only the empty coordinates array.
PriorGeometries == {NoGeometry, Point(<<77209000, 28613900>>), EmptyGeometry}

NoDoc == [location |-> Undefined, country |-> Undefined, geometry |-> NoGeometry]
NoRecord == [exists |-> FALSE, doc |-> NoDoc]
\* req.body.listing.latitude and .longitude: the values the form's
\* listing[latitude] and listing[longitude] inputs hold when it is submitted.
NoPin == [set |-> FALSE, lat |-> 0, lng |-> 0]
\* (`before` is history: the stored listing when updateListing began)
NoReq == [op |-> "none", pc |-> "idle", location |-> Undefined, country |-> Undefined,
          pin |-> NoPin, hasFile |-> FALSE, doc |-> NoDoc, geocoded |-> FALSE,
          result |-> NoResult, saveOk |-> FALSE, redirect |-> "none",
          rendered |-> FALSE, locals |-> {}, before |-> NoDoc]

\* req.body.listing.location and .country
BodyLocations == Addresses
BodyCountries == {Undefined, "", "India"}
\* The pin fields of the body: left empty, or written by updateLocationFields
\* when the user confirmed a pin (confirmLocation is reached for points in range).
BodyPins == {NoPin} \cup {[set |-> TRUE, lat |-> p.lat, lng |-> p.lng] :
                            p \in {q \in ClickPoints : InRange(q.lat, q.lng)}}

\* The listing the request is about: none yet, or one stored earlier.
SrvInit ==
    /\ db \in {NoRecord}
          \cup [exists : {TRUE},
                doc : [location : {"old address"}, country : {"", "India"},
                       geometry : PriorGeometries]]
    /\ req = NoReq
    /\ flash = {}

SrvOff == db = NoRecord /\ req = NoReq /\ flash = {}

\* (mutant) the geocoded country written whenever the result has one
AfterSuccessOverwritingCountry(doc, location, country, r) ==
    [geometry |-> Point(r.coordinates),
     location |-> IF TruthyStr(r.address) /\ r.address # location
                  THEN r.address ELSE doc.location,
     country |-> IF TruthyStr(r.country) THEN r.country ELSE doc.country]

\* The document after a successful geocode: geometry, then the formatted address
\* when it differs from the submitted one, then the country when `country` is empty.
AfterSuccess(doc, location, country, r) ==
    [geometry |-> Point(r.coordinates),
     location |-> IF TruthyStr(r.address) /\ r.address # location
                  THEN r.address ELSE doc.location,
     country |-> IF ~TruthyStr(country) /\ TruthyStr(r.country)
                 THEN r.country ELSE doc.country]

\* createListing up to `await geocodeAddress(location)`; req.file.path throws
\* without an uploaded file, and the catch flashes an error and redirects.
CreateListing(location, country, hasFile, pin) ==
    /\ req.pc \in {"idle", "done"}
    /\ ~db.exists
    /\ IF hasFile
       THEN /\ req' = [NoReq EXCEPT !.op = "create", !.pc = "geocoding",
                          !.location = location, !.country = country, !.pin = pin,
                          !.hasFile = TRUE,
                          !.doc = [location |-> location, country |-> country,
                                   geometry |-> NoGeometry]]
            /\ flash' = {}
       ELSE /\ req' = [NoReq EXCEPT !.op = "create", !.pc = "done",
                          !.location = location, !.country = country, !.pin = pin,
                          !.redirect = "/listings/new"]
            /\ flash' = {[type |-> "error", text |-> "Failed to create listing. Please try again."]}
    /\ UNCHANGED <<db, acVars, pinVars, geo, svcVars, sel>>

\* createListing from the geocode result to `await newListing.save()`
CreateGeocoded(up) ==
    /\ req.op = "create" /\ req.pc = "geocoding"
    /\ LET r == GeocodeAddress(req.location, up) IN
         IF r.success
         THEN /\ req' = [req EXCEPT !.pc = "saving", !.geocoded = TRUE, !.result = r,
                           !.doc = AfterSuccess(req.doc, req.location, req.country, r)]
              /\ flash' = flash \cup {[type |-> "success",
                    text |-> "New Listing Created with location mapped successfully!"]}
         ELSE /\ req' = [req EXCEPT !.pc = "saving", !.geocoded = TRUE, !.result = r,
                           !.doc.geometry = DefaultGeometry]
              /\ flash' = flash \cup {[type |-> "warning", text |-> r.error]}
    /\ UNCHANGED <<db, acVars, pinVars, geo, svcVars, sel>>

\* newListing.save() succeeds (redirect to /listings) or throws (the catch)
CreateSaved(ok) ==
    /\ req.op = "create" /\ req.pc = "saving"
    /\ IF ok
       THEN /\ db' = [exists |-> TRUE, doc |-> req.doc]
            /\ req' = [req EXCEPT !.pc = "done", !.saveOk = TRUE, !.redirect = "/listings"]
            /\ UNCHANGED flash
       ELSE /\ req' = [req EXCEPT !.pc = "done", !.redirect = "/listings/new"]
            /\ flash' = flash \cup {[type |-> "error",
                            text |-> "Failed to create listing. Please try again."]}
            /\ UNCHANGED db
    /\ UNCHANGED <<acVars, pinVars, geo, svcVars, sel>>

\* {...req.body.listing} applied by findByIdAndUpdate: the fields the body holds
Updated(doc, location, country) ==
    [doc EXCEPT !.location = IF location = Undefined THEN @ ELSE location,
                !.country = IF country = Undefined THEN @ ELSE country]

\* updateListing up to the await of geocodeAddress, or of listing.save() when
\* the body holds no location; findByIdAndUpdate has written the body's fields.
UpdateListing(location, country, pin) ==
    /\ req.pc \in {"idle", "done"}
    /\ flash' = IF db.exists THEN {}
                ELSE {[type |-> "error", text |-> "Listing not found"]}
    /\ IF ~db.exists
       THEN /\ req' = [NoReq EXCEPT !.op = "update", !.pc = "done",
                          !.location = location, !.country = country, !.pin = pin,
                          !.redirect = "/listings"]
            /\ UNCHANGED db
       ELSE /\ db' = [db EXCEPT !.doc = Updated(db.doc, location, country)]
            /\ req' = [NoReq EXCEPT !.op = "update",
                          !.pc = IF TruthyStr(location) THEN "geocoding" ELSE "saving",
                          !.location = location, !.country = country, !.pin = pin,
                          !.doc = Updated(db.doc, location, country),
                          !.before = db.doc]
    /\ UNCHANGED <<acVars, pinVars, geo, svcVars, sel>>

\* The geometry updateListing leaves after a failed geocode: the fallback only
\* `if (!listing.geometry || !listing.geometry.coordinates)`
KeptGeometry(g) ==
    IF ~g.present \/ ~g.hasCoordinates THEN DefaultGeometry ELSE g

\* updateListing from the geocode result to `await listing.save()`
UpdateGeocoded(up) ==
    /\ req.op = "update" /\ req.pc = "geocoding"
    /\ LET r == GeocodeAddress(req.location, up) IN
         IF r.success
         THEN /\ req' = [req EXCEPT !.pc = "saving", !.geocoded = TRUE, !.result = r,
                           !.doc = AfterSuccess(req.doc, req.location, req.doc.country, r)]
              /\ UNCHANGED flash
         ELSE /\ req' = [req EXCEPT !.pc = "saving", !.geocoded = TRUE, !.result = r,
                           !.doc.geometry = KeptGeometry(req.doc.geometry)]
              /\ flash' = flash \cup {[type |-> "warning", text |-> r.error]}
    /\ UNCHANGED <<db, acVars, pinVars, geo, svcVars, sel>>

\* listing.save() succeeds (success flash, redirect to the listing) or throws
UpdateSaved(ok) ==
    /\ req.op = "update" /\ req.pc = "saving"
    /\ IF ok
       THEN /\ db' = [exists |-> TRUE, doc |-> req.doc]
            /\ req' = [req EXCEPT !.pc = "done", !.saveOk = TRUE, !.redirect = "/listings/id"]
            /\ flash' = flash \cup {[type |-> "success",
                                     text |-> "Listing Updated Successfully!"]}
       ELSE /\ req' = [req EXCEPT !.pc = "done", !.redirect = "/listings/id/edit"]
            /\ flash' = flash \cup {[type |-> "error",
                            text |-> "Failed to update listing. Please try again."]}
            /\ UNCHANGED db
    /\ UNCHANGED <<acVars, pinVars, geo, svcVars, sel>>

\* The flash middleware on the request the redirect leads to: res.locals gets
\* the "success" and the "error" messages, and req.flash(type) removes what it
\* returns from the session; messages of other types stay where they are.
FlashMiddleware ==
    /\ req.pc = "done" /\ ~req.rendered
    /\ req' = [req EXCEPT !.rendered = TRUE,
                          !.locals = {f \in flash : f.type \in {"success", "error"}}]
    /\ flash' = {f \in flash : f.type \notin {"success", "error"}}
    /\ UNCHANGED <<db, acVars, pinVars, geo, svcVars, sel>>

SrvNext ==
    \/ \E l \in BodyLocations, c \in BodyCountries, f \in BOOLEAN, p \in BodyPins :
           CreateListing(l, c, f, p)
    \/ \E up \in SearchOutcomes : CreateGeocoded(up)
    \/ \E ok \in BOOLEAN : CreateSaved(ok)
    \/ \E l \in BodyLocations, c \in BodyCountries, p \in BodyPins :
           UpdateListing(l, c, p)
    \/ \E up \in SearchOutcomes : UpdateGeocoded(up)
    \/ \E ok \in BOOLEAN : UpdateSaved(ok)
    \/ FlashMiddleware

\* ------------------------------------------------------------ pin claims
\* The candidate popup of gesture g is open.
CandidateOpen(g) == popup.kind = "candidate" /\ popup.g = g

\* C3: a candidate whose reverse geocode failed on every attempt commits, on
\* confirmation, the label "lat, lng" with both numbers rounded to 4 decimals.
C3_FallbackCommitsLabel ==
    (popup.kind = "candidate" /\ popup.source = "fallback")
        => popup.confirmArg = CoordLabel(<<>>, popup.lat, popup.lng)

\* C4: a gesture whose lat is outside [-90, 90] or lng outside [-180, 180]
\* places no temporary marker, sends no request, opens no popup and writes no
\* form field.
C4_OutOfRangeRejected ==
    /\ \A g \in 1..MaxGestures :
          gestures[g].pc \in {"fetch", "backoff"}
              => InRange(gestures[g].lat, gestures[g].lng)
    /\ popup.kind # "none" => InRange(popup.lat, popup.lng)
    /\ latField # <<>> /\ lngField # <<>> => InRange(latField[1], lngField[1])

\* C5: once a newer gesture started, the result of an earlier one never opens
\* the candidate popup: an open candidate belongs to the latest gesture.
C5_SupersededIgnored ==
    popup.kind = "candidate" => popup.g = nextGesture - 1

C20_PinRoundTrip ==
    (popup.kind = "candidate" /\ popup.source = "resolved")
        => popup.confirmArg = popup.shown

\* The invocations of fetchSuggestions a step starts from the debounce timer.
StartedCalls ==
    {c \in calls' : c \notin calls /\ c.pc = "fetch" /\ c.attempt = 1 /\ ~c.superseded}

\* C24: an input event starts no fetch; a fetch starts only when the pending
\* debounce timer fires, one per firing, with the timer's query, which is the
\* query of the last input event when that event was long enough; the timer
\* is then spent, so that a further fetch needs a further input event.
C24_Debounce ==
    [][ /\ Cardinality(StartedCalls) <= 1
        /\ \A c \in StartedCalls :
              /\ debounceTimer.armed /\ ~debounceTimer'.armed
              /\ inputValue' = inputValue
              /\ c.query = debounceTimer.query
              /\ Len(Trim(inputValue)) >= MinLength => c.query = Trim(inputValue)
        /\ (debounceTimer'.armed /\ Len(Trim(inputValue')) >= MinLength)
              => debounceTimer'.query = Trim(inputValue') ]_vars

\* C24 witness: the timer has fired after the last input event and its fetch,
\* carrying that event's trimmed query, is in flight.
C24_Witness ==
    /\ inputValue = <<"a", "b", " ">>
    /\ ~debounceTimer.armed
    /\ \E c \in calls : c.pc = "fetch" /\ c.attempt = 1 /\ c.query = <<"a", "b">>

\* C25: while the trimmed query of the last input event is shorter than
\* minLength no fetch is started: a timer armed by an earlier, longer query
\* produces no request.
C25_ShortQueryNoRequest ==
    [][StartedCalls # {} => Len(Trim(inputValue)) >= MinLength]_vars

\* C26: an input event that changes the query leaves the session with no
\* suggestions and no cursor.
C26_ResetOnKeystroke ==
    [][Trim(inputValue') # Trim(inputValue)
          => suggestions' = <<>> /\ currentIndex' = -1]_vars

\* C27: once no debounce timer is pending and no invocation of fetchSuggestions
\* is outstanding, the list shows the outcome of the query of the last input
\* event, when that query has at least minLength characters.
C27_LatestQueryShown ==
    (~debounceTimer.armed /\ calls = {} /\ ~isLoading
        /\ Len(Trim(inputValue)) >= MinLength)
      => /\ lastDone.query = Trim(inputValue)
         /\ listContent.kind = lastDone.endContent

\* C28: in every reachable state of a session currentIndex is -1 or an index
\* into the current suggestions: -1 <= currentIndex < suggestions.length.
C28_CursorInvariant ==
    currentIndex >= -1 /\ currentIndex < Len(suggestions)

\* C29: over n >= 1 listed suggestions an arrow key moves the cursor
\* circularly: down from n-1 or from -1 to 0, up from 0 or from -1 to n-1,
\* otherwise by exactly the direction; with no listed item it moves nothing.
\* Nothing but the cursor changes.
C29_CircularNavigation ==
    [][\A direction \in {-1, 1} :
          MoveSelection(direction) =>
             /\ UNCHANGED <<suggestions, listContent, listDisplay, inputValue>>
             /\ IF ItemCount = 0
                THEN currentIndex' = currentIndex
                ELSE CASE direction = 1 /\ currentIndex \in {ItemCount - 1, -1}
                            -> currentIndex' = 0
                       [] direction = -1 /\ currentIndex \in {0, -1}
                            -> currentIndex' = ItemCount - 1
                       [] OTHER -> currentIndex' = currentIndex + direction]_vars

\* C29 witness: the cursor is on the last of several listed suggestions.
C29_Witness ==
    /\ IsVisible /\ ItemCount = MaxSugg
    /\ currentIndex = ItemCount - 1

\* C30: a selection leaves every dependent field (country, latitude,
\* longitude) that already holds a value as it is.
C30_SelectionKeepsFilledFields ==
    [][\A index \in 1..(Len(ShownSuggestions) + 1) :
          SelectSuggestion(index) =>
             /\ sel.country # "" => sel'.country = sel.country
             /\ sel.latitude # <<>> => sel'.latitude = sel.latitude
             /\ sel.longitude # <<>> => sel'.longitude = sel.longitude]_vars

\* C31: a selection made while a map is present either places the marker at
\* the suggestion's own in-range coordinates or starts the fallback address
\* resolution (geocodeAndUpdateMap -> searchAndSetLocation).
C31_MapNeverLeftUnset ==
    [][\A index \in 1..Len(ShownSuggestions) :
          (SelectSuggestion(index) /\ sel.hasMap) =>
             LET c == ShownSuggestions[index].coordinates IN
               \/ /\ InRange(c[2], c[1])
                  /\ sel'.mapAt = <<c[2], c[1]>>
                  /\ ~sel'.fallback
               \/ sel'.fallback]_vars

\* C32: from a selection until the next input or focus event the list is
\* hidden and the cursor is -1.
C32_SelectionClosesList ==
    closedBySelect => listDisplay = "none" /\ currentIndex = -1

\* ------------------------------------------------------------ more pin claims
\* C33: a gesture's reverseGeocode waits for a retry only while attempt <=
\* retryAttempts, for retryDelay * attempt, so it sends at most
\* retryAttempts + 1 requests before its candidate opens.
C33_BoundedPinRetries ==
    /\ \A g \in 1..MaxGestures :
          /\ gestures[g].attempt <= RetryAttempts + 1
          /\ gestures[g].pc = "backoff" =>
                /\ gestures[g].attempt <= RetryAttempts
                /\ gestures[g].delay = RetryDelay * gestures[g].attempt
    /\ popup.requests <= RetryAttempts + 1

\* C33 witness: a gesture waits for its last retry, after request number
\* retryAttempts failed.
C33_Witness ==
    \E g \in 1..MaxGestures :
        /\ gestures[g].pc = "backoff"
        /\ gestures[g].attempt = RetryAttempts
        /\ gestures[g].delay = RetryDelay * RetryAttempts

\* C34: when a request of a gesture is aborted by its timeout, at whatever
\* attempt, the same step opens the gesture's coordinate-only candidate, and
\* a gesture that has ended sends no request again.
C34_TimeoutEndsRetries ==
    [][\A g \in 1..MaxGestures :
          /\ \A o \in ReverseOutcomes :
                (o.kind = "abort" /\ ReverseResponse(g, o)) =>
                   /\ gestures'[g].pc = "done"
                   /\ popup'.kind = "candidate" /\ popup'.g = g
                   /\ popup'.source = "fallback"
                   /\ popup'.requests = gestures[g].attempt
          /\ gestures[g].pc = "done" => gestures'[g].pc = "done"]_vars

\* C34 witness: a candidate without an address is open after the gesture's
\* second request, which only an aborted request leads to.
C34_Witness ==
    /\ popup.kind = "candidate" /\ popup.source = "fallback"
    /\ popup.requests = 2

\* The steps of a gesture from the click to its candidate.
GestureStep ==
    \/ \E p \in ClickPoints : OnMapClick(p)
    \/ \E g \in 1..MaxGestures, o \in ReverseOutcomes : ReverseResponse(g, o)
    \/ \E g \in 1..MaxGestures : ReverseBackoffElapsed(g)

\* C35: neither the steps of a gesture up to its candidate nor the cancel of
\* the candidate change the location, latitude and longitude fields or the
\* permanent marker, and after the cancel no temporary marker of the gesture
\* is on the map.
C35_CancelRestores ==
    [][ /\ (GestureStep \/ CancelPopup)
             => UNCHANGED <<locationField, latField, lngField, marker>>
        /\ CancelPopup => (popup' = NoPopup /\ popup.g \notin tempMarkers') ]_vars

\* C35 witness: a candidate was cancelled: its gesture has ended, no popup is
\* open, and the fields and the marker are those of the page as loaded.
C35_Witness ==
    /\ popup = NoPopup /\ tempMarkers = {}
    /\ \E g \in 1..MaxGestures : gestures[g].pc = "done"
    /\ latField = <<>> /\ lngField = <<>>
    /\ locationField = Formatted(<<"old address">>)
    /\ marker = [lat |-> 20296000, lng |-> 85824600]

Outstanding == {c \in calls : c.pc = "fetch"}

\* C37: a session has at most one autocomplete request outstanding, and
\* isLoading is true while one is.
C37_SingleInFlight ==
    /\ Cardinality(Outstanding) <= 1
    /\ Outstanding # {} => isLoading

\* C37 witness: while a request was outstanding the debounce timer of a later
\* query fired and sent nothing; the request is still the only one.
C37_Witness ==
    /\ isLoading /\ ~debounceTimer.armed
    /\ \E c \in Outstanding : c.superseded /\ c.query # Trim(inputValue)

\* C38: Enter selects a suggestion only while the visible list shows the
\* suggestions as its items, never under a loading, error or no-results row.
C38_EnterSelectsDisplayed ==
    [][SelectCurrent => (IsVisible /\ listContent.kind = "items"
                           /\ currentIndex < ItemCount)]_vars

\* C39: the confirmation of a pin arms no debounce timer and starts no
\* request of the autocomplete session on the location field.
C39_NoFeedbackFromPin ==
    [][ConfirmLocation => UNCHANGED <<debounceTimer, calls>>]_vars

\* ------------------------------------------------------------ controller claims
\* A geometry of type Point with a two-element coordinate pair.
ValidGeometry(g) == g.present /\ g.type = "Point" /\ Len(g.coordinates) = 2

\* C8: when createListing's geocode fails, the listing gets the geometry
\* {Point, [DEFAULT_COORDINATES.lng, DEFAULT_COORDINATES.lat]}, a warning flash
\* is recorded, and the listing is saved with it unless save itself throws.
C8_CreateFallsBackToDefault ==
    (req.op = "create" /\ req.geocoded /\ ~req.result.success) =>
        /\ req.doc.geometry = Point(<<DefaultLng, DefaultLat>>)
        /\ \E f \in flash : f.type = "warning" /\ f.text = req.result.error
        /\ (req.pc = "done" /\ req.saveOk) =>
              /\ db.exists
              /\ db.doc.geometry = Point(<<DefaultLng, DefaultLat>>)
              /\ req.redirect = "/listings"
        /\ (req.pc = "done" /\ req.redirect # "/listings") => ~req.saveOk

\* C8 witness: a creation whose address found no results was saved.
C8_Witness ==
    /\ req.op = "create" /\ req.pc = "done" /\ req.saveOk
    /\ req.result.error = "No results found for the provided address"
    /\ db.exists

\* C9: after every createListing or updateListing that saved, the stored
\* listing has a geometry of type Point with a two-element coordinate pair.
C9_ValidGeometryAfterSave ==
    (req.pc = "done" /\ req.saveOk) => ValidGeometry(db.doc.geometry)

\* C10: every value geocodeAddress returns has
\* success = true <=> coordinates # null <=> error = null.
C10_ForwardResultInvariant ==
    geo.called =>
        /\ geo.result.success <=> geo.result.coordinates # NoCoordinates
        /\ geo.result.success <=> geo.result.error = NoError

\* C10 witness: a call for a valid address that the provider timed out on
\* returned a failure.
C10_Witness ==
    /\ geo.called
    /\ TruthyStr(geo.address) /\ geo.address # NonString
    /\ geo.up.kind = "timeout"
    /\ ~geo.result.success

\* ------------------------------------------------------------ client claims
\* C11: geocodeAddress, reverseGeocode and getAutocompleteSuggestions return a
\* value and never throw, for every input and every upstream outcome.
C11_ClientNeverRaises ==
    /\ geo.called => ~geo.result.threw
    /\ rev.called => ~rev.result.threw
    /\ sug.called => ~sug.result.threw

\* A call whose try block threw (the provider's results are not an array, or
\* the options are null) and one whose upstream request timed out.
C11_Witness ==
    \/ /\ sug.called /\ ~SugRejects(sug.query)
       /\ (sug.up.kind = "malformed" \/ sug.options = "null")
       /\ ~sug.result.success
    \/ rev.called /\ rev.requested /\ rev.up.kind = "timeout" /\ ~rev.result.success

\* lat and lng are finite numbers with lat in [-90, 90] and lng in [-180, 180]
FiniteInRange(lat, lng) ==
    lat.t = "number" /\ lng.t = "number" /\ InRange(lat.v, lng.v)

\* C12: reverseGeocode returns the invalid-coordinates failure, without an
\* upstream request, exactly when lat or lng is not a finite number or is out
\* of range; every finite in-range pair (0 included) is sent upstream.
C12_ReverseInputDomain ==
    rev.called =>
        /\ (rev.result.error = "Invalid coordinates provided")
              <=> ~FiniteInRange(rev.lat, rev.lng)
        /\ rev.requested <=> FiniteInRange(rev.lat, rev.lng)

\* The error texts of the generic geocoding-failed outcome.
GenericGeocodeErrors ==
    { "Geocoding failed: timeout of 10000ms exceeded",
      "Geocoding failed: Network Error",
      "Geocoding failed: Cannot read properties of null",
      "Geocoding failed: Request failed with status code" }

\* The error texts the claim allows for the provider's answer up.
ExpectedGeocodeErrors(up) ==
    CASE up.kind = "http" /\ up.status = 401 -> {"Invalid API key for geocoding service"}
      [] up.kind = "http" /\ up.status = 429 -> {"Rate limit exceeded for geocoding service"}
      [] up.kind \in {"empty", "nobody"} -> {"No results found for the provided address"}
      [] OTHER -> GenericGeocodeErrors

\* C13: for an address that reaches the provider, HTTP 401 gives the invalid
\* API key error, HTTP 429 the rate limit error, an empty (or missing) result
\* set the no-results error, any other failure a "Geocoding failed: ..." error;
\* the four differ, and each has success false, no coordinates and the input
\* address echoed.
C13_FailureClassification ==
    (geo.called /\ TruthyStr(geo.address) /\ geo.address # NonString
       /\ geo.up.kind # "results") =>
        /\ geo.result.error \in ExpectedGeocodeErrors(geo.up)
        /\ \A up \in SearchOutcomes :
              (up.kind # "results"
                 /\ ExpectedGeocodeErrors(up) # ExpectedGeocodeErrors(geo.up))
                => geo.result.error \notin ExpectedGeocodeErrors(up)
        /\ ~geo.result.success
        /\ geo.result.coordinates = NoCoordinates
        /\ geo.result.address = geo.address

\* A rate-limited call has returned.
C13_Witness ==
    /\ geo.called /\ TruthyStr(geo.address) /\ geo.address # NonString
    /\ geo.up.kind = "http" /\ geo.up.status = 429
    /\ geo.result.error = "Rate limit exceeded for geocoding service"

\* C14: for a non-empty results array geocodeAddress returns success with
\* coordinates [lon, lat] of the first element, its formatted string (the
\* input address when it has none) and its country ('' when it has none).
C14_SuccessMapping ==
    (geo.called /\ TruthyStr(geo.address) /\ geo.address # NonString
       /\ geo.up.kind = "results") =>
        /\ geo.result.success
        /\ geo.result.coordinates = <<geo.up.first.lon, geo.up.first.lat>>
        /\ geo.result.address = IF geo.up.first.formatted = Undefined
                                THEN geo.address ELSE geo.up.first.formatted
        /\ geo.result.country = IF geo.up.first.country = Undefined
                                THEN "" ELSE geo.up.first.country

\* A success whose first result has no formatted string and no country.
C14_Witness ==
    /\ geo.called /\ geo.up.kind = "results" /\ geo.result.success
    /\ geo.up.first.formatted = Undefined /\ geo.up.first.country = Undefined
    /\ geo.result.address = "221B Baker Street, London"

\* C15: for valid coordinates and an empty result set, reverse geocoding
\* returns a failure whose address is "lat, lng" with both numbers rounded to
\* 4 decimals and nothing else - in GeocodingService.reverseGeocode and in
\* the map's reverseGeocode (whose return the candidate popup shows).
C15_NoResultsLabel ==
    /\ (rev.called /\ FiniteInRange(rev.lat, rev.lng) /\ rev.requested
          /\ rev.up.kind = "empty") =>
            /\ ~rev.result.success
            /\ rev.result.address =
                  TemplateLabel(Num(ToFixed4(rev.lat.v) * 100),
                                Num(ToFixed4(rev.lng.v) * 100))
    /\ (popup.kind = "candidate" /\ popup.source = "resolved"
          /\ popup.shown.kind = "coords") =>
            popup.shown = CoordLabel(<<>>, popup.lat, popup.lng)

\* C16: getAutocompleteSuggestions never sends the provider a text shorter
\* than 3 characters, and its minimum-length failure comes without a request.
C16_ProviderMinLength ==
    sug.called =>
        /\ sug.sent # <<>> => Len(sug.sent[1]) >= 3
        /\ sug.result.error = "Query must be at least 3 characters long"
              => sug.sent = <<>>

\* ------------------------------------------------------------ endpoint claims
\* The query is missing, not a string, shorter than 2 or longer than 200.
BadQuery(q) == q.t # "string" \/ Len(q.chars) < 2 \/ Len(q.chars) > 200

\* C17: a bad query gets 400 with success false and no suggestions, without a
\* geocoding call and whether or not MAP_TOKEN is set; a valid query without
\* MAP_TOKEN gets 500 with success false; an exception in the handler gets 500
\* with success false and no suggestions.
C17_EndpointStatusCodes ==
    api.pc = "done" =>
        /\ (~api.broken /\ BadQuery(api.query)) =>
              /\ api.response.status = 400 /\ ~api.response.success
              /\ api.response.suggestions = <<>> /\ ~api.called
        /\ (~api.broken /\ ~BadQuery(api.query) /\ ~api.token) =>
              /\ api.response.status = 500 /\ ~api.response.success /\ ~api.called
        /\ api.broken =>
              /\ api.response.status = 500 /\ ~api.response.success
              /\ api.response.suggestions = <<>>

\* A 201-character query got its 400 although MAP_TOKEN is absent.
C17_Witness ==
    /\ api.pc = "done" /\ ~api.broken /\ ~api.token
    /\ api.query = Str(Rep(201))
    /\ api.response.status = 400

\* The fixed error texts of the endpoint.
EndpointMessages ==
    { "Query parameter is required and must be a string",
      "Query must be at least 2 characters long",
      "Query is too long",
      "Geocoding service not available",
      "Failed to get address suggestions" }

\* The upstream outcomes that are failures of the provider call.
UpstreamFailures == {up \in SugOutcomes : up.kind \in {"http", "timeout", "network"}}

\* C18: the response to a request whose upstream call failed carries one of
\* the endpoint's fixed error texts, and is the same response whatever the
\* failure was (its status code, its exception message).
C18_NoInternalDetail ==
    (api.pc = "done" /\ api.up \in UpstreamFailures) =>
        /\ api.response.error \in EndpointMessages
        /\ \A up \in UpstreamFailures :
              ServiceResponse(GetAutocompleteSuggestions(api.arg, "object", up))
                = api.response

\* C19: selecting the same suggestion twice in a row leaves the location
\* input and the country, latitude and longitude fields as the first
\* selection left them, whatever the fields held before.
C19_SelectionIdempotent ==
    sel.twice => sel.last.fields = sel.first.fields

\* The same suggestion selected twice on a page with a map, where the country
\* field was empty before the first selection.
C19_Witness ==
    /\ sel.twice /\ sel.hasMap /\ sel.last.index = 1
    /\ sel.country = "India" /\ sel.location = "1 Main St"

\* ------------------------------------------------------------ autocomplete claims
\* C1: the suggestions of a request whose query was superseded by a later
\* debounced query are never stored in `suggestions`.
C1_StaleNeverStored == suggSource # "stale"

\* C2: a fetch cycle whose first request got HTTP 429 sends a second request,
\* and when that one succeeds the cycle ends not loading, showing its answer.
C2_RetryAfter429 ==
    lastDone.first = "http429" =>
        /\ lastDone.requests >= 2
        /\ ~lastDone.endLoading
        /\ lastDone.final = "ok" => lastDone.endContent \in {"items", "noresults"}

\* C7: every finished fetch cycle ends not loading, showing suggestions, "No
\* addresses found" or an error; a cycle whose requests failed shows the error.
C7_CycleEndsSettled ==
    lastDone # NoCycle =>
        /\ ~lastDone.endLoading
        /\ lastDone.endContent \in {"items", "noresults", "error"}
        /\ lastDone.final \in {"http429", "httpError", "network", "abort"}
              => lastDone.endContent = "error"

\* ------------------------------------------------------------ controller claims
\* C21: when a form whose pin fields hold a confirmed pin (lat, lng) was
\* submitted and the listing saved, the stored geometry is the point
\* [lng, lat] of that pin.
C21_ConfirmedPinStored ==
    (req.pc = "done" /\ req.saveOk /\ req.pin.set) =>
        db.doc.geometry = Point(<<req.pin.lng, req.pin.lat>>)

\* C22: when the geocode of a create or update failed, the page rendered after
\* the redirect shows the warning recorded for the request, and after an
\* update it does not show a plain success message instead.
C22_WarningSurfaced ==
    (req.rendered /\ req.geocoded /\ ~req.result.success) =>
        /\ \E f \in req.locals : f.type = "warning" /\ f.text = req.result.error
        /\ req.op = "update" => ~\E f \in req.locals : f.type = "success"

\* The record's country when the geocode result arrives: the submitted one in
\* createListing, the one findByIdAndUpdate left in updateListing.
CountryBeforeGeocode == IF req.op = "create" THEN req.country ELSE db.doc.country

C40_FailedUpdateUnchanged ==
    (req.op = "update" /\ req.pc = "done" /\ req.redirect = "/listings/id/edit")
        => db.doc = req.before

\* ============================================================ specifications
\* The autocomplete session alone.
SvcOff == RevOff /\ SugOff /\ ApiInit /\ SelOff

InitAC == ACInit /\ PinOff /\ SrvOff /\ GeoOff /\ SvcOff
SpecAC == InitAC /\ [][ACNext]_vars

\* The autocomplete session with its keyboard and mouse events.
SpecNav == InitAC /\ [][NavNext]_vars

\* The pin interaction alone.
InitPin == ACInit /\ PinInit /\ SrvOff /\ GeoOff /\ SvcOff
SpecPin == InitPin /\ [][PinNext]_vars

\* The browser delivers every response (or aborts the request at its timeout)
\* and fires every timer.
PinFairness ==
    /\ \A g \in 1..MaxGestures :
          WF_vars(\E o \in ReverseOutcomes : ReverseResponse(g, o))
    /\ \A g \in 1..MaxGestures : WF_vars(ReverseBackoffElapsed(g))

FairSpecPin == SpecPin /\ PinFairness

\* The listing controller alone.
InitSrv == ACInit /\ PinOff /\ SrvInit /\ GeoOff /\ SvcOff
SpecSrv == InitSrv /\ [][SrvNext]_vars

\* Calls of GeocodingService.geocodeAddress alone.
InitGeo == ACInit /\ PinOff /\ SrvOff /\ GeoInit /\ SvcOff
SpecGeo == InitGeo /\ [][GeoNext]_vars

\* Calls of the three functions of GeocodingService, one function's inputs drawn.
InitClient ==
    /\ ACInit /\ PinOff /\ SrvOff /\ ApiInit /\ SelOff
    /\ \/ GeoInit /\ RevOff /\ SugOff
       \/ GeoOff /\ RevInit /\ SugOff
       \/ GeoOff /\ RevOff /\ SugInit
SpecClient == InitClient /\ [][ClientNext]_vars

\* Requests to the address-suggestions endpoint.
InitApi == ACInit /\ PinOff /\ SrvOff /\ GeoOff /\ RevOff /\ SugOff /\ ApiInit /\ SelOff
SpecApi == InitApi /\ [][ApiNext]_vars

\* Selections in an autocomplete session.
InitSel == ACInit /\ PinOff /\ SrvOff /\ GeoOff /\ RevOff /\ SugOff /\ ApiInit /\ SelInit
SpecSel == InitSel /\ [][SelNext]_vars

====
